---- MODULE Spec2Model ----
(***************************************************************************)
(* Session protocol of the TADA net server (server/net_server.py):         *)
(* UserHandler.handle and its per-message handlers, the per-address        *)
(* LoginHistory record with its JSON persistence, and the process-wide     *)
(* connected_users registry.  One session is one thread of the             *)
(* ThreadingMixIn server; a step of a session is a stretch of its code     *)
(* that touches at most one shared object (the registry, a login-history   *)
(* file, the user store, the invite store).                                *)
(***************************************************************************)
EXTENDS Integers, Sequences, FiniteSets, TLC

\* ------------------------------------------------------------------ bounds
NumSessions == 2     \* connections the server accepts
MaxMsgs == 4         \* messages the clients send, all connections together

\* ------------------------------------------------------- program constants
FAIL_LIMIT == 10     \* LoginHistory._fail_limit

Sessions == 1..NumSessions
Addrs == {"a1"}
None == "None"

server_id == "TADA"
server_key == "1234567890"

\* account ids a client may name; "" is the empty id
UserIds == {"u1", "u2", "ghost", "newbie"}

\* ------------------------------------------------------------- Message
Msg(lines, mode, error, error_line) ==
    [lines |-> lines, mode |-> mode, error |-> error, error_line |-> error_line]

Server1Msg == Msg("Terminating session.", "bye", "server1", "server side error")
Server2Msg == Msg("Terminating session.", "bye", "server2", "server side error")
UserIdMsg == Msg("User id required.", "bye", "user_id", "No user id.")
error_ban == Msg("", "bye", "login2", "Too many failed attempts.")
error_login_failed == Msg("login_fail_lines", "login", "login1", "Login failed.")
MultipleMsg ==
    Msg("One connection allowed at a time.", "bye", "multiple", "Multiple connections.")
InitSuccessMsg == Msg("init_success_lines", "login", "", "")

\* ------------------------------------------------------------- LoginHistory
EmptyDict == [u \in {} |-> 0]

DictGet(d, k, default) == IF k \in DOMAIN d THEN d[k] ELSE default

DictSet(d, k, v) == [x \in (DOMAIN d) \cup {k} |-> IF x = k THEN v ELSE d[x]]

DictPop(d, k) == [x \in (DOMAIN d) \ {k} |-> d[x]]

HistoryFields == {"addr", "no_user_attempts", "bad_password_attempts",
                  "fail_count", "ban_count"}

\* LoginHistory(addr): the dataclass defaults
LoginHistory(a) ==
    [addr |-> a, no_user_attempts |-> EmptyDict, bad_password_attempts |-> EmptyDict,
     fail_count |-> 0, ban_count |-> 0]

\* banned(): the predicate
is_banned(h) == h.fail_count >= FAIL_LIMIT

\* banned(update=True): the record after the call
banned_update(h) ==
    IF is_banned(h) THEN [h EXCEPT !.ban_count = @ + 1] ELSE h

\* no_user as it would be if only the per-user counter were kept
no_user_per_user_only(h, user_id) ==
    [h EXCEPT !.no_user_attempts = DictSet(@, user_id, DictGet(@, user_id, 0) + 1)]

\* no_user(user_id), up to its save()
no_user(h, user_id) ==
    [h EXCEPT !.fail_count = @ + 1,
              !.no_user_attempts = DictSet(@, user_id, DictGet(@, user_id, 0) + 1)]

\* fail_password(user_id), up to its save()
fail_password(h, user_id) ==
    [h EXCEPT !.fail_count = @ + 1,
              !.bad_password_attempts = DictSet(@, user_id, DictGet(@, user_id, 0) + 1)]

\* succeed_user as it would be if success wiped the whole record of the address
succeed_user_wipes(h, user_id) ==
    [h EXCEPT !.fail_count = 0, !.no_user_attempts = EmptyDict,
              !.bad_password_attempts = EmptyDict]

\* succeed_user(user_id), up to its save()
succeed_user(h, user_id) ==
    [h EXCEPT !.fail_count = 0,
              !.bad_password_attempts =
                  IF user_id \in DOMAIN @ THEN DictPop(@, user_id) ELSE @]

\* json.dump(..., default = the fields whose value is truthy)
Falsy(h, k) ==
    CASE k = "addr" -> h.addr = ""
      [] k = "fail_count" -> h.fail_count = 0
      [] k = "ban_count" -> h.ban_count = 0
      [] k = "no_user_attempts" -> DOMAIN h.no_user_attempts = {}
      [] k = "bad_password_attempts" -> DOMAIN h.bad_password_attempts = {}

\* save(): the JSON object written to client-<addr>.json
save(h) == [k \in {f \in HistoryFields : ~Falsy(h, f)} |-> h[k]]

\* no file client-<addr>.json on disk
NoFile == [k \in {} |-> 0]

\* load(addr): LoginHistory(**lh_data), or LoginHistory(addr) without a file
load(file, a) ==
    [k \in HistoryFields |-> IF k \in DOMAIN file THEN file[k] ELSE LoginHistory(a)[k]]

\* ------------------------------------------------------------- inputs
\* the first message of a connection: its 'id' and 'key'
InitInputs == {<<i, k>> : i \in {server_id, "bad"}, k \in {server_key, "bad"}}

\* data['login'] = (user_id, password, invite_code)
LoginInputs ==
    {<<"", "good", "">>,
     <<"u1", "good", "">>, <<"u1", "bad", "">>,
     <<"ghost", "bad", "">>,
     <<"newbie", "good", "code">>, <<"newbie", "good", "wrong">>}

\* the local variables of _process_login: the unpacked login, the password the
\* `user` object holds (None while there is no such object), and the code of the
\* `invite` object (None while there is none)
Login(t, stored) ==
    [user_id |-> t[1], password |-> t[2], invite_code |-> t[3], stored |-> stored,
     invite |-> None]

NoLogin == Login(<<"", "", "">>, None)

\* the persisted login history the server finds at start: earlier connections
\* have left the address two failures short of the limit
InitFiles ==
    {save([LoginHistory("a1") EXCEPT
              !.fail_count = FAIL_LIMIT - 2,
              !.no_user_attempts = DictSet(EmptyDict, "ghost", FAIL_LIMIT - 3),
              !.bad_password_attempts = DictSet(EmptyDict, "u2", 1)])}

\* ------------------------------------------------------------- state
VARIABLES
    connected_users,   \* the module-level set, guarded by server_lock
    store,             \* client-<addr>.json, per address
    users,             \* nc.User store: user id -> password, or None
    invites,           \* nc.Invite store: user id -> code, or None
    pc,                \* where each handler thread stands
    addr,              \* client_address[0]
    login_history,     \* self.login_history
    ready,             \* self.ready (FALSE for None)
    user,              \* self.user, by its id
    response,          \* handle's local `response`: <<>> while unbound
    login,             \* _process_login's locals
    out,               \* what was sent for the message last received
    welcomed,          \* whether process_login_success has returned its Message
    nmsgs,             \* messages received so far, all connections together
    store0,            \* the files at server start
    nfails,            \* failed logins recorded per address
    nsucc              \* whether a successful login was recorded, per address

shared == <<connected_users, store, users, invites>>
handler == <<login_history, ready, login, welcomed>>
local == <<pc, addr, user, response, out, handler>>
ghost == <<nmsgs, store0, nfails, nsucc>>
vars == <<shared, local, ghost>>

Live == {"banned", "recv", "L_invite", "L_create", "L_delete", "L_ban", "L_check",
         "L_password", "L_add", "L_succeed"}
Ended == {"refused", "done", "aborted", "crashed"}

Init ==
    /\ connected_users = {}
    /\ store \in [Addrs -> InitFiles]
    /\ users = [u \in UserIds |-> IF u \in {"u1", "u2"} THEN "good" ELSE None]
    /\ invites = [u \in UserIds |-> IF u = "newbie" THEN "code" ELSE None]
    /\ pc = [s \in Sessions |-> "idle"]
    /\ addr = [s \in Sessions |-> ""]
    /\ login_history = [s \in Sessions |-> LoginHistory("")]
    /\ ready = [s \in Sessions |-> FALSE]
    /\ user = [s \in Sessions |-> None]
    /\ response = [s \in Sessions |-> <<>>]
    /\ login = [s \in Sessions |-> NoLogin]
    /\ out = [s \in Sessions |-> <<>>]
    /\ nmsgs = 0
    /\ store0 = store
    /\ nfails = [a \in Addrs |-> 0]
    /\ nsucc = [a \in Addrs |-> FALSE]
    /\ welcomed = [s \in Sessions |-> FALSE]

\* ------------------------------------------------------------- handle: connect
\* handle, lines 117-127: LoginHistory.load(addr) and the banned() test; a handler
\* that finds the address banned still has its ban_count to save
Connect(s) ==
    /\ pc[s] = "idle"
    /\ \A t \in Sessions : t < s => pc[t] # "idle"   \* numbered in the order they load
    /\ \E a \in Addrs :
          /\ addr' = [addr EXCEPT ![s] = a]
          /\ login_history' = [login_history EXCEPT ![s] = load(store[a], a)]
    /\ pc' = [pc EXCEPT ![s] = IF is_banned(login_history'[s]) THEN "banned" ELSE "recv"]
    /\ UNCHANGED <<shared, ready, user, response, login, out, welcomed, ghost>>

\* handle, lines 119-121: banned(True, save=True) counts the refusal, saves, and
\* handle returns
Refuse(s) ==
    /\ pc[s] = "banned"
    /\ store' = [store EXCEPT ![addr[s]] = save(banned_update(login_history[s]))]
    /\ login_history' = [login_history EXCEPT ![s] = LoginHistory("")]
    /\ pc' = [pc EXCEPT ![s] = "refused"]
    /\ UNCHANGED <<connected_users, users, invites, addr, ready, user, response,
                   login, out, welcomed, ghost>>

\* ------------------------------------------------------------- handle: the loop
\* what a per-message handler did: returned a Message, returned None, or raised
Ret(m) == [kind |-> "ret", msg |-> <<m>>]
RetNone == [kind |-> "none", msg |-> <<>>]
Raise == [kind |-> "raise", msg |-> <<>>]

\* handle, lines 141-156, after the handler of the received message returned a
\* Message or raised: the session's next pc, `response` and what was sent.
\* sendfails: the peer is gone, _send_data raises, the send of the server2 reply
\* in the outer except raises as well and handle ends by that exception, before
\* line 157.
LoopTail(resp, res, sendfails) ==
    IF sendfails
    THEN [pc |-> "aborted", response |-> <<>>, out |-> <<>>]
    ELSE IF res.kind = "ret"
         THEN [pc |-> "recv", response |-> res.msg, out |-> res.msg]
         ELSE [pc |-> "recv", response |-> resp,
               out |-> <<Server1Msg>> \o (IF resp = <<>> THEN <<Server2Msg>> ELSE resp)]

\* the handler object of session s: self.login_history, self.ready, the locals
\* of _process_login, and whether the login-success hook has returned
Handler(s) ==
    [login_history |-> login_history[s], ready |-> ready[s], login |-> login[s],
     welcomed |-> welcomed[s]]

\* no handler object: the thread has not started, or handle has ended
NoHandler ==
    [login_history |-> LoginHistory(""), ready |-> FALSE, login |-> NoLogin,
     welcomed |-> FALSE]

SetHandler(s, h) ==
    /\ login_history' = [login_history EXCEPT ![s] = h.login_history]
    /\ ready' = [ready EXCEPT ![s] = h.ready]
    /\ login' = [login EXCEPT ![s] = h.login]
    /\ welcomed' = [welcomed EXCEPT ![s] = h.welcomed]

\* the handler of session s returned a Message or raised, leaving the handler
\* object as h; the rest of the loop body runs.  When handle ends by the send's
\* exception the handler object is gone.
Finish(s, res, h) ==
    \E sendfails \in BOOLEAN :
        LET t == LoopTail(response[s], res, sendfails) IN
        /\ pc' = [pc EXCEPT ![s] = t.pc]
        /\ response' = [response EXCEPT ![s] = t.response]
        /\ out' = [out EXCEPT ![s] = t.out]
        /\ SetHandler(s, IF sendfails THEN NoHandler ELSE h)

\* handle has returned or died: the handler object and its locals are gone; what
\* is kept is the user attached at that moment
Gone(s) ==
    /\ SetHandler(s, NoHandler)
    /\ response' = [response EXCEPT ![s] = <<>>]
    /\ out' = [out EXCEPT ![s] = <<>>]

\* handle, lines 157-163, the loop left: under server_lock the user id is removed
\* from connected_users; remove() of an absent id raises KeyError
Exit(s) ==
    /\ connected_users' = IF user[s] # None THEN connected_users \ {user[s]}
                          ELSE connected_users
    /\ pc' = [pc EXCEPT ![s] = IF user[s] # None /\ user[s] \notin connected_users
                               THEN "crashed" ELSE "done"]
    /\ Gone(s)

\* handle, lines 130-133: recv returns nothing, the peer has closed
RecvClose(s) ==
    /\ pc[s] = "recv"
    /\ Exit(s)
    /\ UNCHANGED <<store, users, invites, addr, user, ghost>>

\* _process_init as it would be if only the id were compared
process_init_id_only(id, key, raises) ==
    IF id = server_id
    THEN [ready |-> TRUE, res |-> IF raises THEN Raise ELSE Ret(InitSuccessMsg)]
    ELSE [ready |-> FALSE, res |-> RetNone]

\* _process_init: the reply, and whether self.ready is set; `raises` is whether
\* init_success_lines raises
process_init(id, key, raises) ==
    IF id = server_id
    THEN IF key = server_key
         THEN [ready |-> TRUE, res |-> IF raises THEN Raise ELSE Ret(InitSuccessMsg)]
         ELSE [ready |-> FALSE, res |-> RetNone]
    ELSE [ready |-> FALSE, res |-> RetNone]

\* handle, lines 130-136 and on: the message received while self.ready is None,
\* with 'id' and 'key' as in i
ProcessInitWith(s, i, raises) ==
    /\ pc[s] = "recv"
    /\ ~ready[s]
    /\ nmsgs < MaxMsgs
    /\ nmsgs' = nmsgs + 1
    /\ LET r == process_init(i[1], i[2], raises) IN
       IF r.res.kind = "none"
       THEN Exit(s)
       ELSE /\ Finish(s, r.res, [Handler(s) EXCEPT !.ready = r.ready])
            /\ UNCHANGED connected_users
    /\ UNCHANGED <<store, users, invites, addr, user, store0, nfails, nsucc>>

\* init_success_lines is called, and so can raise, only when id and key match
ProcessInit(s) ==
    \E i \in InitInputs, raises \in BOOLEAN :
        /\ raises => (i[1] = server_id /\ i[2] = server_key)
        /\ ProcessInitWith(s, i, raises)

\* process_message: the hook returns a Message, a Message with mode bye,
\* nothing, or raises
MessageResults ==
    {Ret(Msg("app", "app", "", "")), Ret(Msg("Goodbye.", "bye", "", "")), RetNone, Raise}

\* handle, lines 130-140 and on: a message received with a user attached
ProcessMessage(s) ==
    /\ pc[s] = "recv"
    /\ ready[s]
    /\ user[s] # None
    /\ nmsgs < MaxMsgs
    /\ nmsgs' = nmsgs + 1
    /\ \E res \in MessageResults :
          IF res.kind = "none"
          THEN Exit(s)
          ELSE /\ Finish(s, res, Handler(s))
               /\ UNCHANGED connected_users
    /\ UNCHANGED <<store, users, invites, addr, user, store0, nfails, nsucc>>

\* ------------------------------------------------------------- _process_login
\* nc.User.matchPassword(password) of the user object loaded or created
matchPassword(l) == l.stored = l.password

\* LoginStart as it would be if handle dispatched on self.user alone, without
\* looking at self.ready
LoginStart_unready(s) ==
    /\ pc[s] = "recv"
    /\ user[s] = None
    /\ nmsgs < MaxMsgs
    /\ nmsgs' = nmsgs + 1
    /\ \E t \in LoginInputs :
          IF t[1] = ""
          THEN Finish(s, Ret(UserIdMsg), [Handler(s) EXCEPT !.login = Login(t, None)])
          ELSE /\ login' = [login EXCEPT ![s] = Login(t, users[t[1]])]
               /\ pc' = [pc EXCEPT ![s] =
                            IF users[t[1]] = None THEN "L_invite" ELSE "L_check"]
               /\ out' = [out EXCEPT ![s] = <<>>]
               /\ UNCHANGED <<response, login_history, ready, welcomed>>
    /\ UNCHANGED <<shared, addr, user, store0, nfails, nsucc>>

\* lines 186-204: the login message is received and unpacked, User.load(user_id)
LoginStart(s) ==
    /\ pc[s] = "recv"
    /\ ready[s]
    /\ user[s] = None
    /\ nmsgs < MaxMsgs
    /\ nmsgs' = nmsgs + 1
    /\ \E t \in LoginInputs :
          IF t[1] = ""
          THEN Finish(s, Ret(UserIdMsg), [Handler(s) EXCEPT !.login = Login(t, None)])
          ELSE /\ login' = [login EXCEPT ![s] = Login(t, users[t[1]])]
               /\ pc' = [pc EXCEPT ![s] =
                            IF users[t[1]] = None THEN "L_invite" ELSE "L_check"]
               /\ out' = [out EXCEPT ![s] = <<>>]
               /\ UNCHANGED <<response, login_history, ready, welcomed>>
    /\ UNCHANGED <<shared, addr, user, store0, nfails, nsucc>>

\* a failure is recorded and saved: fail_count and one per-user counter
RecordFailure(s, h) ==
    /\ login_history' = [login_history EXCEPT ![s] = h]
    /\ store' = [store EXCEPT ![addr[s]] = save(h)]
    /\ nfails' = [nfails EXCEPT ![addr[s]] = @ + 1]
    /\ pc' = [pc EXCEPT ![s] = "L_ban"]

\* lines 205-227: Invite.load(user_id); no invite or a wrong code is a no_user
\* failure, a matching code makes the User object with the supplied password
InviteLoad(s) ==
    /\ pc[s] = "L_invite"
    /\ LET l == login[s] IN
       IF invites[l.user_id] = None \/ invites[l.user_id] # l.invite_code
       THEN /\ RecordFailure(s, no_user(login_history[s], l.user_id))
            /\ login' = [login EXCEPT ![s].invite = invites[l.user_id]]
       ELSE /\ login' = [login EXCEPT ![s].stored = l.password,
                                      ![s].invite = invites[l.user_id]]
            /\ pc' = [pc EXCEPT ![s] = "L_create"]
            /\ UNCHANGED <<login_history, store, nfails>>
    /\ UNCHANGED <<connected_users, users, invites, addr, ready, user, response,
                   out, welcomed, nmsgs, store0, nsucc>>

\* line 228: user.save()
UserSave(s) ==
    /\ pc[s] = "L_create"
    /\ users' = [users EXCEPT ![login[s].user_id] = login[s].stored]
    /\ pc' = [pc EXCEPT ![s] = "L_delete"]
    /\ UNCHANGED <<connected_users, store, invites, addr, user, response, out,
                   handler, ghost>>

\* line 229: invite.delete(), of the invite this session loaded
InviteDelete(s) ==
    /\ pc[s] = "L_delete"
    /\ invites' = [invites EXCEPT ![login[s].user_id] = None]
    /\ pc' = [pc EXCEPT ![s] = "L_check"]
    /\ UNCHANGED <<connected_users, store, users, addr, user, response, out,
                   handler, ghost>>

\* BanAfterFailure as it would be if the reply told an unknown account or a wrong
\* invite code from a wrong password
BanAfterFailure_tells_cause(s) ==
    /\ pc[s] = "L_ban"
    /\ LET h == banned_update(login_history[s]) IN
       IF is_banned(login_history[s])
       THEN /\ store' = [store EXCEPT ![addr[s]] = save(h)]
            /\ Finish(s, Ret(error_ban), [Handler(s) EXCEPT !.login_history = h])
       ELSE /\ store' = store
            /\ \E raises \in BOOLEAN :
                  Finish(s, IF raises THEN Raise
                            ELSE IF login[s].stored = None
                                 THEN Ret(Msg("No such user.", "login", "login1",
                                              "Login failed."))
                                 ELSE Ret(error_login_failed),
                         Handler(s))
    /\ UNCHANGED <<connected_users, users, invites, addr, user, ghost>>

\* the banned(True, save=True) that ends no_user and fail_password, and the reply
\* chosen from its result (lines 209-213, 218-223, 237-242); `raises` is whether
\* login_fail_lines raises
BanAfterFailure(s) ==
    /\ pc[s] = "L_ban"
    /\ LET h == banned_update(login_history[s]) IN
       IF is_banned(login_history[s])
       THEN /\ store' = [store EXCEPT ![addr[s]] = save(h)]
            /\ Finish(s, Ret(error_ban), [Handler(s) EXCEPT !.login_history = h])
       ELSE /\ store' = store
            /\ \E raises \in BOOLEAN :
                  Finish(s, IF raises THEN Raise ELSE Ret(error_login_failed),
                         Handler(s))
    /\ UNCHANGED <<connected_users, users, invites, addr, user, ghost>>

\* lines 230-242 as they would be with the password verified before the registry
\* is consulted
RegistryCheck_password_first(s) ==
    /\ pc[s] = "L_check"
    /\ IF ~matchPassword(login[s])
       THEN /\ RecordFailure(s, fail_password(login_history[s], login[s].user_id))
            /\ UNCHANGED <<connected_users, users, invites, response, out, ready,
                           login, welcomed, nmsgs, store0, nsucc>>
       ELSE /\ IF login[s].user_id \in connected_users
               THEN Finish(s, Ret(MultipleMsg), Handler(s))
               ELSE /\ pc' = [pc EXCEPT ![s] = "L_password"]
                    /\ UNCHANGED <<response, out, handler>>
            /\ UNCHANGED <<shared, ghost>>
    /\ UNCHANGED <<addr, user>>

\* lines 230-234: under server_lock, is the user id in connected_users
RegistryCheck(s) ==
    /\ pc[s] = "L_check"
    /\ IF login[s].user_id \in connected_users
       THEN Finish(s, Ret(MultipleMsg), Handler(s))
       ELSE /\ pc' = [pc EXCEPT ![s] = "L_password"]
            /\ UNCHANGED <<response, out, handler>>
    /\ UNCHANGED <<shared, addr, user, ghost>>

\* PasswordCheck as it would be if line 235 let any password through
PasswordCheck_any_password(s) ==
    /\ pc[s] = "L_password"
    /\ user' = [user EXCEPT ![s] = login[s].user_id]
    /\ pc' = [pc EXCEPT ![s] = "L_add"]
    /\ UNCHANGED <<shared, addr, response, out, handler, ghost>>

\* lines 235-243: the password is verified; a mismatch is a fail_password failure,
\* a match attaches the user
PasswordCheck(s) ==
    /\ pc[s] = "L_password"
    /\ IF ~matchPassword(login[s])
       THEN /\ RecordFailure(s, fail_password(login_history[s], login[s].user_id))
            /\ UNCHANGED user
       ELSE /\ user' = [user EXCEPT ![s] = login[s].user_id]
            /\ pc' = [pc EXCEPT ![s] = "L_add"]
            /\ UNCHANGED <<login_history, store, nfails>>
    /\ UNCHANGED <<connected_users, users, invites, addr, ready, response, login,
                   out, welcomed, nmsgs, store0, nsucc>>

\* lines 244-245: under server_lock, connected_users.add(user_id)
RegistryAdd(s) ==
    /\ pc[s] = "L_add"
    /\ connected_users' = connected_users \cup {login[s].user_id}
    /\ pc' = [pc EXCEPT ![s] = "L_succeed"]
    /\ UNCHANGED <<store, users, invites, addr, user, response, out, handler, ghost>>

\* process_login_success: the hook returns its Message or raises
LoginSuccessMsg == Msg("Welcome", "app", "", "")

LoginSuccessResults == {Ret(LoginSuccessMsg), Raise}

\* lines 246-247: succeed_user(user_id, save=True), then the login-success hook
SucceedUser(s) ==
    /\ pc[s] = "L_succeed"
    /\ LET h == succeed_user(login_history[s], login[s].user_id) IN
       /\ store' = [store EXCEPT ![addr[s]] = save(h)]
       /\ \E res \in LoginSuccessResults :
             Finish(s, res, [Handler(s) EXCEPT !.login_history = h,
                                               !.welcomed = res.kind = "ret"])
    /\ nsucc' = [nsucc EXCEPT ![addr[s]] = TRUE]
    /\ UNCHANGED <<connected_users, users, invites, addr, user, nmsgs, store0, nfails>>

\* ------------------------------------------------------------- specification
Next ==
    \E s \in Sessions :
        \/ Connect(s)
        \/ Refuse(s)
        \/ RecvClose(s)
        \/ ProcessInit(s)
        \/ LoginStart(s)
        \/ InviteLoad(s)
        \/ UserSave(s)
        \/ InviteDelete(s)
        \/ BanAfterFailure(s)
        \/ RegistryCheck(s)
        \/ PasswordCheck(s)
        \/ RegistryAdd(s)
        \/ SucceedUser(s)
        \/ ProcessMessage(s)

Spec == Init /\ [][Next]_vars

\* ------------------------------------------------------------- claims
\* a message is received on session s and handed to its handler
Dispatch(s) == ProcessInit(s) \/ LoginStart(s) \/ ProcessMessage(s)

LoginPcs == {"L_invite", "L_create", "L_delete", "L_ban", "L_check", "L_password",
             "L_add", "L_succeed"}

\* C1: at no reachable state do two live sessions have the same user attached
\* (of concurrent logins to one account exactly one is authenticated).
C1_OneSessionPerUser ==
    \A s, t \in Sessions :
        (s # t /\ pc[s] \in Live /\ pc[t] \in Live /\ user[s] # None)
            => user[s] # user[t]

\* C2: once a session that attached a user has ended, on whatever path, its user id
\* is no longer in the registry (unless another live session holds that account).
C2_RemovedOnEveryExit ==
    \A s \in Sessions :
        (pc[s] \in Ended /\ user[s] # None
           /\ \A t \in Sessions : pc[t] \in Live => user[t] # user[s])
            => user[s] \notin connected_users

\* C3: a login attempt naming a user, made while the session's login history is at
\* the fail limit, is answered with login2 and attaches no user.
C3_BannedLoginRefused ==
    [][\A s \in Sessions :
          (pc[s] \in LoginPcs /\ is_banned(login_history[s]) /\ pc'[s] = "recv")
              => (out'[s] = <<error_ban>> /\ user'[s] = None)]_vars

\* C4: after a reply with mode bye (a handler's bye, login2, multiple) no further
\* message of the session is processed.
C4_ByeEndsSession ==
    [][\A s \in Sessions :
          (pc[s] = "recv" /\ Len(out[s]) = 1 /\ out[s][1].mode = "bye"
             /\ out[s][1].error \in {"", "login2", "multiple"})
              => ~Dispatch(s)]_vars

\* C5: after a hook raised and the server1 reply was sent, no further message of
\* the session is processed.
C5_FaultEndsSession ==
    [][\A s \in Sessions :
          (pc[s] = "recv" /\ Len(out[s]) > 0 /\ out[s][1] = Server1Msg)
              => ~Dispatch(s)]_vars

\* C6: a successful login of u sets the record's fail_count to 0 and drops u's
\* bad_password_attempts entry; no_user_attempts, the other users'
\* bad_password_attempts entries and ban_count are as before, and the record is
\* what the file then holds.
C6_SuccessFrame ==
    [][\A s \in Sessions :
          (pc[s] = "L_succeed" /\ pc'[s] # "L_succeed") =>
              LET u == login[s].user_id
                  h == login_history[s]
                  h2 == load(store'[addr[s]], addr[s])
              IN /\ h2.fail_count = 0
                 /\ DOMAIN h2.bad_password_attempts = (DOMAIN h.bad_password_attempts) \ {u}
                 /\ \A v \in DOMAIN h2.bad_password_attempts :
                        h2.bad_password_attempts[v] = h.bad_password_attempts[v]
                 /\ h2.no_user_attempts = h.no_user_attempts
                 /\ h2.ban_count = h.ban_count
                 /\ pc'[s] = "recv" => login_history'[s] = h2]_vars

\* C6 witness: a session just logged in, its fail_count reset, with another user's
\* bad-password counter and a no-user counter still in its record
C6_Witness ==
    \E s \in Sessions :
        /\ pc[s] = "recv" /\ user[s] = "u1" /\ out[s] = <<LoginSuccessMsg>>
        /\ login_history[s].fail_count = 0
        /\ DictGet(login_history[s].no_user_attempts, "ghost", 0) > 0
        /\ DictGet(login_history[s].bad_password_attempts, "u2", 0) > 0
        /\ load(store[addr[s]], addr[s]) = login_history[s]

\* C7: a login for an account whose id is in the registry is answered with
\* multiple, whatever the password, and changes neither the login history (in
\* memory or on disk) nor the registry nor any other session.
C7_MultipleFrame ==
    [][\A s \in Sessions :
          (pc[s] = "L_check" /\ login[s].user_id \in connected_users
             /\ pc'[s] # "L_check") =>
              /\ pc'[s] = "recv" => out'[s] = <<MultipleMsg>>
              /\ pc'[s] \in {"recv", "aborted"}
              /\ user'[s] = None
              /\ pc'[s] = "recv" => login_history'[s] = login_history[s]
              /\ store' = store
              /\ connected_users' = connected_users
              /\ \A t \in Sessions \ {s} :
                     /\ pc'[t] = pc[t] /\ user'[t] = user[t] /\ ready'[t] = ready[t]
                     /\ out'[t] = out[t] /\ response'[t] = response[t]
                     /\ login_history'[t] = login_history[t]]_vars

\* C7 witness: a login with the account's correct password was answered multiple
C7_Witness ==
    \E s \in Sessions :
        /\ pc[s] = "recv" /\ out[s] = <<MultipleMsg>> /\ user[s] = None
        /\ matchPassword(login[s])
        /\ \E t \in Sessions \ {s} : pc[t] \in Live /\ user[t] = login[s].user_id

Matched(i) == i[1] = server_id /\ i[2] = server_key

C9_RefusalCountsOnce ==
    [][\A s \in Sessions :
          (pc[s] = "banned" /\ pc'[s] = "refused") =>
              LET a == addr[s] IN
              /\ load(store'[a], a).ban_count = load(store[a], a).ban_count + 1
              /\ load(store'[a], a).fail_count = load(store[a], a).fail_count
              /\ connected_users' = connected_users]_vars

\* C10: while no successful login of an address was recorded, its persisted
\* fail_count is its initial value plus the failed logins recorded for it.
C10_NoLostFailure ==
    \A a \in Addrs :
        ~nsucc[a] =>
            load(store[a], a).fail_count = load(store0[a], a).fail_count + nfails[a]

\* the login of l took the branch of lines 224-229: there was no account, and the
\* invite loaded carries the code supplied
ViaInvite(l) == l.invite # None /\ l.invite = l.invite_code

\* C11: a login that found no account and an invite with the supplied code ends as
\* a successful login does: it ends by the step of lines 246-247 (the success
\* reply, or the hook's fault), with the account stored under the supplied
\* password, the invite deleted, the user attached and in the registry, and
\* fail_count 0.
C11_InviteLoginSucceeds ==
    [][\A s \in Sessions :
          (pc[s] \in LoginPcs /\ ViaInvite(login[s]) /\ pc'[s] = "recv") =>
              LET u == login[s].user_id IN
              /\ pc[s] = "L_succeed"
              /\ out'[s] = <<LoginSuccessMsg>> \/ out'[s][1] = Server1Msg
              /\ users'[u] = login[s].password
              /\ invites'[u] = None
              /\ user'[s] = u
              /\ u \in connected_users'
              /\ login_history'[s].fail_count = 0]_vars

\* C12: an account is created from an invite only while there is no account of
\* that id (so no stored password is overwritten), and an invite is deleted only
\* while it exists (so it is deleted once).
C12_InviteConsumedOnce ==
    [][\A s \in Sessions :
          /\ UserSave(s) => users[login[s].user_id] = None
          /\ InviteDelete(s) => invites[login[s].user_id] # None]_vars

C14_EmptyUserId ==
    [][\A s \in Sessions :
          (LoginStart(s) /\ login'[s].user_id = "" /\ pc'[s] # "aborted") =>
              /\ Len(out'[s]) = 1 /\ out'[s][1].error = "user_id"
              /\ out'[s][1].mode # "bye"
              /\ user'[s] = None
              /\ login_history' = login_history /\ store' = store
              /\ connected_users' = connected_users
              /\ pc'[s] \in Ended]_vars

\* C15: process_message is invoked for a message of a session only after the
\* login-success hook of that session has returned its Message.
C15_HookBeforeCommands ==
    [][\A s \in Sessions : ProcessMessage(s) => welcomed[s]]_vars

\* the per-user counters of d other than u's are as in e
OthersSame(d, e, u) ==
    /\ (DOMAIN d) \ {u} = (DOMAIN e) \ {u}
    /\ \A v \in (DOMAIN d) \ {u} : d[v] = e[v]

\* C16: recording a failure for u (no_user when there is no account or no matching
\* invite, fail_password otherwise) raises the record's fail_count by 1 and u's
\* counter in the matching map by 1, leaves the other map and the other users'
\* counters as they were, and the file then holds the record; the ban reply
\* follows iff the resulting fail_count is at least FAIL_LIMIT.
C16_FailureFrame ==
    [][\A s \in Sessions :
          /\ (pc[s] \in {"L_invite", "L_password"} /\ pc'[s] = "L_ban") =>
                LET u == login[s].user_id
                    h == login_history[s]
                    h2 == login_history'[s]
                    hit == IF pc[s] = "L_invite" THEN "no_user_attempts"
                           ELSE "bad_password_attempts"
                    other == IF pc[s] = "L_invite" THEN "bad_password_attempts"
                             ELSE "no_user_attempts"
                IN /\ h2.fail_count = h.fail_count + 1
                   /\ u \in DOMAIN h2[hit]
                   /\ h2[hit][u] = DictGet(h[hit], u, 0) + 1
                   /\ OthersSame(h2[hit], h[hit], u)
                   /\ h2[other] = h[other]
                   /\ h2.ban_count = h.ban_count /\ h2.addr = h.addr
                   /\ load(store'[addr[s]], addr[s]) = h2
          /\ (pc[s] = "L_ban" /\ pc'[s] = "recv") =>
                /\ out'[s] = <<error_ban>> <=> login_history[s].fail_count >= FAIL_LIMIT
                /\ login_history'[s].fail_count = login_history[s].fail_count]_vars

\* C16 witness: a session has just recorded the failure that reaches the limit,
\* a no-user failure of ghost, and the file holds its record
C16_Witness ==
    \E s \in Sessions :
        /\ pc[s] = "L_ban" /\ login[s].user_id = "ghost"
        /\ login_history[s].fail_count = FAIL_LIMIT
        /\ DictGet(login_history[s].no_user_attempts, "ghost", 0) = FAIL_LIMIT - 1
        /\ DictGet(login_history[s].bad_password_attempts, "u2", 0) = 1
        /\ load(store[addr[s]], addr[s]) = login_history[s]

\* C17: while the loop of a session runs, ready once set stays set and a user once
\* attached stays attached and is not replaced; ready becomes set only by a
\* handshake whose id and key match; a login is taken up, and a user is attached,
\* only in a session that is ready.
C17_ForwardOnly ==
    [][\A s \in Sessions :
          /\ (pc[s] \in Live /\ pc'[s] \in Live) =>
                /\ ready[s] => ready'[s]
                /\ user[s] # None => user'[s] = user[s]
          /\ (~ready[s] /\ ready'[s]) =>
                \E i \in InitInputs : \E raises \in BOOLEAN :
                    Matched(i) /\ ProcessInitWith(s, i, raises)
          /\ pc'[s] \in LoginPcs => ready'[s]
          /\ (pc'[s] \in Live /\ user'[s] # None) => ready'[s]]_vars

\* C17 witness: a session went from the handshake through its login to a command
C17_Witness ==
    \E s \in Sessions :
        /\ pc[s] = "recv" /\ ready[s] /\ user[s] = "u1" /\ welcomed[s]
        /\ out[s] = <<Msg("app", "app", "", "")>>

\* C18: a running session has user u attached only if it is ready (its handshake
\* matched) and the login it received names u and either carried the password
\* stored for u or took the invite branch with the code of u's invite.
C18_AttachedOnlyByCredentials ==
    \A s \in Sessions :
        (pc[s] \in Live /\ user[s] # None) =>
            /\ ready[s]
            /\ login[s].user_id = user[s]
            /\ \/ ViaInvite(login[s])
               \/ login[s].stored # None /\ login[s].stored = login[s].password

\* C18 witness: one session is attached to u1 by its password while another, after
\* a failed login, has no user attached
C18_Witness ==
    \E s, t \in Sessions :
        /\ pc[s] = "recv" /\ user[s] = "u1" /\ login[s].password = users["u1"]
        /\ pc[t] = "recv" /\ user[t] = None /\ ready[t]
        /\ out[t] = <<error_login_failed>> /\ login[t].stored # login[t].password

\* C19: the registry removal of a terminating session never finds its user id
\* absent: no session ends by the KeyError of connected_users.remove.
C19_RemovalNeverFails ==
    \A s \in Sessions : pc[s] # "crashed"

\* C20: for each message received at most one reply is sent (the one computed for
\* it): never a server1 reply followed by an earlier message's reply or by a
\* server2 reply.
C20_OneReplyPerMessage ==
    \A s \in Sessions : Len(out[s]) <= 1

====
